---- MODULE Spec2Model ----
(***************************************************************************)
(* A model of grecho (src/main.rs): the echo handler that mirrors a        *)
(* request back as the response, the two control headers, the bind         *)
(* address validation and the startup sequence of main.                    *)
(*                                                                         *)
(* Header names are sequences of one-character strings, header values and  *)
(* bodies are sequences of bytes (0..255), text is a sequence of code      *)
(* points.                                                                 *)
(***************************************************************************)
EXTENDS Integers, Sequences, FiniteSets, TLC

VARIABLES
    verbose,    \* web::Data<bool> handed to every handler
    pc,         \* per worker: "idle", "received", "done"
    req,        \* per worker: the request as it arrived on the wire
    resp,       \* per worker: the HttpResponse returned by echo_handler
    trace,      \* per worker: what echo_handler printed
    port_in,    \* validate_port: the string under validation
    port_out,   \* validate_port: its result
    mpc,        \* main: position in the startup sequence
    file,       \* main: the content of Settings.toml (or NoFile)
    cli,        \* main: the command line
    settings,   \* main: the Settings value in use
    hostname,   \* main: the validated IpAddr
    port,       \* main: the port to bind
    checked,    \* main: which validators have returned Ok, and on what
    bound,      \* main: the address the listening socket is bound to
    exit_code,  \* main: the exit status of the process
    served      \* main: requests served by the HTTP server

vars == <<verbose, pc, req, resp, trace, port_in, port_out, mpc, file, cli,
          settings, hostname, port, checked, bound, exit_code, served>>

echoVars == <<verbose, pc, req, resp, trace>>
portVars == <<port_in, port_out>>
mainVars == <<mpc, file, cli, settings, hostname, port, checked, bound,
              exit_code, served>>

\* Option<T>: None, or Some(x)
None == <<>>
Some(x) == <<x>>
unwrap_or(o, d) == IF o = None THEN d ELSE o[1]

(***************************************************************************)
(* Bounds                                                                  *)
(***************************************************************************)
MaxHeaders == 2
MaxStatusLen == 5
MaxBody == 3
MaxPortLen == 5
MaxServed == 2

(***************************************************************************)
(* Text helpers                                                            *)
(***************************************************************************)
Upper == <<"A","B","C","D","E","F","G","H","I","J","K","L","M",
           "N","O","P","Q","R","S","T","U","V","W","X","Y","Z">>
Lower == <<"a","b","c","d","e","f","g","h","i","j","k","l","m",
           "n","o","p","q","r","s","t","u","v","w","x","y","z">>

\* char::to_lowercase on one character
LowerChar(c) ==
    IF \E i \in DOMAIN Upper : Upper[i] = c
    THEN Lower[CHOOSE i \in DOMAIN Upper : Upper[i] = c]
    ELSE c

\* str::to_lowercase
to_lowercase(s) == [i \in DOMAIN s |-> LowerChar(s[i])]

\* the characters of a name as one string
RECURSIVE Str(_)
Str(s) == IF s = <<>> THEN "" ELSE Head(s) \o Str(Tail(s))

RECURSIVE Perms(_)
Perms(S) ==
    IF S = {} THEN {<<>>}
    ELSE UNION {{<<x>> \o p : p \in Perms(S \ {x})} : x \in S}

RECURSIVE Flatten(_)
Flatten(ss) == IF ss = <<>> THEN <<>> ELSE Head(ss) \o Flatten(Tail(ss))

\* the sequences over S of length at most n
SeqsUpTo(S, n) == UNION {[1..k -> S] : k \in 0..n}

(***************************************************************************)
(* Constants of the program                                                *)
(***************************************************************************)
RESERVED_HEADERS ==
    { "content-length", "user-agent", "host", "connection", "accept",
      "accept-encoding", "accept-language", "cache-control",
      "upgrade-insecure-requests", "sec-fetch-dest", "sec-fetch-mode",
      "sec-fetch-site", "sec-ch-ua", "sec-ch-ua-mobile",
      "sec-ch-ua-platform", "authorization", "cookie", "referer", "origin",
      "x-forwarded-for", "x-forwarded-proto", "x-real-ip",
      "transfer-encoding", "te", "trailer", "proxy-authorization",
      "proxy-authenticate", "www-authenticate" }

INTERNAL_STATUS_CODE_HEADER ==
    <<"i","n","t","e","r","n","a","l",".","s","t","a","t","u","s","-","c","o","d","e">>

INTERNAL_RESPONSE_BODY_HEADER ==
    <<"i","n","t","e","r","n","a","l",".","r","e","s","p","o","n","s","e","-","b","o","d","y">>

(***************************************************************************)
(* Library conversions used by the handler                                 *)
(***************************************************************************)
\* HeaderValue::to_str: Some(text) when every byte is visible ASCII or a tab
to_str(v) ==
    IF \A i \in DOMAIN v : v[i] = 9 \/ (v[i] >= 32 /\ v[i] < 127)
    THEN Some(v) ELSE None

U16_MAX == 65535

\* str::parse::<u16>: an optional '+', then one or more decimal digits, with
\* a checked multiply-and-add per digit; None on any error
RECURSIVE parse_digits(_, _)
parse_digits(s, acc) ==
    IF s = <<>> THEN Some(acc)
    ELSE IF Head(s) < 48 \/ Head(s) > 57 THEN None
    ELSE LET next == acc * 10 + (Head(s) - 48)
         IN  IF next > U16_MAX THEN None ELSE parse_digits(Tail(s), next)

parse_u16(s) ==
    IF s = <<>> THEN None
    ELSE IF Len(s) = 1 /\ (s[1] = 43 \/ s[1] = 45) THEN None
    ELSE IF s[1] = 43 THEN parse_digits(Tail(s), 0)
    ELSE parse_digits(s, 0)

\* StatusCode::from_u16: Ok for 100..=999
StatusCode_from_u16(n) == IF n >= 100 /\ n < 1000 THEN Some(n) ELSE None

REPLACEMENT == 65533

IsCont(b) == b >= 128 /\ b <= 191

\* String::from_utf8_lossy: each maximal invalid prefix becomes U+FFFD
RECURSIVE from_utf8_lossy(_)
from_utf8_lossy(b) ==
    IF b = <<>> THEN <<>>
    ELSE
      LET b1 == b[1]
          n  == Len(b)
          Rest(k) == SubSeq(b, k + 1, n)
          Bad(k)  == <<REPLACEMENT>> \o from_utf8_lossy(Rest(k))
          Second3 == IF b1 = 224 THEN n >= 2 /\ b[2] >= 160 /\ b[2] <= 191
                     ELSE IF b1 = 237 THEN n >= 2 /\ b[2] >= 128 /\ b[2] <= 159
                     ELSE n >= 2 /\ IsCont(b[2])
          Second4 == IF b1 = 240 THEN n >= 2 /\ b[2] >= 144 /\ b[2] <= 191
                     ELSE IF b1 = 244 THEN n >= 2 /\ b[2] >= 128 /\ b[2] <= 143
                     ELSE n >= 2 /\ IsCont(b[2])
      IN
      IF b1 < 128 THEN <<b1>> \o from_utf8_lossy(Rest(1))
      ELSE IF b1 >= 194 /\ b1 <= 223 THEN
          IF n >= 2 /\ IsCont(b[2])
          THEN <<(b1 - 192) * 64 + (b[2] - 128)>> \o from_utf8_lossy(Rest(2))
          ELSE Bad(1)
      ELSE IF b1 >= 224 /\ b1 <= 239 THEN
          IF ~Second3 THEN Bad(1)
          ELSE IF ~(n >= 3 /\ IsCont(b[3])) THEN Bad(2)
          ELSE <<(b1 - 224) * 4096 + (b[2] - 128) * 64 + (b[3] - 128)>>
               \o from_utf8_lossy(Rest(3))
      ELSE IF b1 >= 240 /\ b1 <= 244 THEN
          IF ~Second4 THEN Bad(1)
          ELSE IF ~(n >= 3 /\ IsCont(b[3])) THEN Bad(2)
          ELSE IF ~(n >= 4 /\ IsCont(b[4])) THEN Bad(3)
          ELSE <<(b1 - 240) * 262144 + (b[2] - 128) * 4096
                 + (b[3] - 128) * 64 + (b[4] - 128)>>
               \o from_utf8_lossy(Rest(4))
      ELSE Bad(1)

(***************************************************************************)
(* Address validation                                                      *)
(***************************************************************************)
Ok(x) == <<"Ok", x>>
Err(e) == <<"Err", e>>
is_ok(r) == r[1] = "Ok"

\* validate_port without the test for zero
validate_port_zero_allowed(port_str) ==
    LET parsed == parse_u16(port_str)
    IN  IF parsed = None THEN Err("Invalid port") ELSE Ok(parsed[1])

\* lines 147-156
validate_port(port_str) ==
    LET parsed == parse_u16(port_str)
    IN  IF parsed = None THEN Err("Invalid port")
        ELSE IF parsed[1] = 0 THEN Err("Port cannot be 0")
        ELSE Ok(parsed[1])

\* char::to_digit
to_digit(b, radix) ==
    IF b >= 48 /\ b <= 57 /\ b - 48 < radix THEN b - 48
    ELSE IF radix = 16 /\ b >= 97 /\ b <= 102 THEN b - 87
    ELSE IF radix = 16 /\ b >= 65 /\ b <= 70 THEN b - 55
    ELSE -1

\* the digit loop of the address parser's read_number: Some(<<value, digits, rest>>)
RECURSIVE read_digits(_, _, _, _, _, _)
read_digits(s, radix, max_digits, max_value, acc, count) ==
    IF s /= <<>> /\ to_digit(Head(s), radix) >= 0
    THEN LET next == acc * radix + to_digit(Head(s), radix)
         IN  IF next > max_value \/ count + 1 > max_digits THEN None
             ELSE read_digits(Tail(s), radix, max_digits, max_value, next, count + 1)
    ELSE Some(<<acc, count, s>>)

\* read_number: Some(<<value, rest>>)
read_number(s, radix, max_digits, allow_zero_prefix, max_value) ==
    LET r == read_digits(s, radix, max_digits, max_value, 0, 0)
    IN  IF r = None THEN None
        ELSE IF r[1][2] = 0 THEN None
        ELSE IF ~allow_zero_prefix /\ s[1] = 48 /\ r[1][2] > 1 THEN None
        ELSE Some(<<r[1][1], r[1][3]>>)

\* read_separator: the text after the separator that precedes item index
after_separator(s, sep, index) ==
    IF index = 0 THEN Some(s)
    ELSE IF s /= <<>> /\ Head(s) = sep THEN Some(Tail(s))
    ELSE None

\* read_ipv4_addr: four decimal octets separated by dots: Some(<<octets, rest>>)
RECURSIVE read_octets(_, _, _)
read_octets(s, i, acc) ==
    IF i = 4 THEN Some(<<acc, s>>)
    ELSE LET t == after_separator(s, 46, i)
             n == IF t = None THEN None ELSE read_number(t[1], 10, 3, FALSE, 255)
         IN  IF n = None THEN None
             ELSE read_octets(n[1][2], i + 1, Append(acc, n[1][1]))

read_ipv4_addr(s) == read_octets(s, 0, <<>>)

\* the two 16-bit groups of four octets
groups_of_octets(o) == <<o[1] * 256 + o[2], o[3] * 256 + o[4]>>

\* read_groups of read_ipv6_addr: <<groups, ended with an IPv4 part, rest>>.
\* At group i it first tries an embedded IPv4 address (when two groups are
\* left), then a hexadecimal group; t is the text after the separator
RECURSIVE read_groups(_, _, _, _)
RECURSIVE read_groups_at(_, _, _, _, _)
RECURSIVE read_groups_hex(_, _, _, _, _)
read_groups(s, limit, i, acc) ==
    IF i >= limit THEN <<acc, FALSE, s>>
    ELSE read_groups_at(s, limit, i, acc, after_separator(s, 58, i))

read_groups_at(s, limit, i, acc, t) ==
    IF t = None THEN <<acc, FALSE, s>>
    ELSE IF i < limit - 1 /\ read_ipv4_addr(t[1]) /= None
    THEN <<acc \o groups_of_octets(read_ipv4_addr(t[1])[1][1]), TRUE,
           read_ipv4_addr(t[1])[1][2]>>
    ELSE read_groups_hex(s, limit, i, acc, read_number(t[1], 16, 4, TRUE, 65535))

read_groups_hex(s, limit, i, acc, g) ==
    IF g = None THEN <<acc, FALSE, s>>
    ELSE read_groups(g[1][2], limit, i + 1, Append(acc, g[1][1]))

\* read_ipv6_addr after "::": the groups before it, the groups after it and
\* zeroes between them
ipv6_with_tail(head_groups, tail) ==
    Some(<<head_groups \o [k \in 1..(8 - Len(head_groups) - Len(tail[1])) |-> 0] \o tail[1],
           tail[3]>>)

\* read_ipv6_addr once the leading groups are read
ipv6_after_head(head) ==
    IF Len(head[1]) = 8 THEN Some(<<head[1], head[3]>>)
    ELSE IF head[2] THEN None
    ELSE IF ~(Len(head[3]) >= 2 /\ head[3][1] = 58 /\ head[3][2] = 58) THEN None
    ELSE ipv6_with_tail(head[1],
                        read_groups(SubSeq(head[3], 3, Len(head[3])),
                                    8 - (Len(head[1]) + 1), 0, <<>>))

\* read_ipv6_addr: Some(<<eight groups, rest>>)
read_ipv6_addr(s) == ipv6_after_head(read_groups(s, 8, 0, <<>>))

\* the address when nothing follows it
at_end(kind, parsed) ==
    IF parsed /= None /\ parsed[1][2] = <<>> THEN Some(<<kind, parsed[1][1]>>) ELSE None

\* read_ip_addr: an IPv4 literal, else an IPv6 literal
read_ip_addr(s, v4) ==
    IF v4 /= None THEN at_end("V4", v4) ELSE at_end("V6", read_ipv6_addr(s))

\* IpAddr::from_str: an IPv4 literal, else an IPv6 literal, and nothing after it
IpAddr_from_str(s) == read_ip_addr(s, read_ipv4_addr(s))

\* lines 142-145
validate_hostname(hostname_str) ==
    LET ip == IpAddr_from_str(hostname_str)
    IN  IF ip = None THEN Err("Invalid hostname") ELSE Ok(ip[1])

(***************************************************************************)
(* HeaderMap: a multimap keyed by the lowercased name; the values of one   *)
(* name keep their arrival order, the order of the names is arbitrary      *)
(***************************************************************************)
\* HeaderName as the HTTP parser stores it
HeaderName(wire) == to_lowercase(wire)

RECURSIVE ValuesOf(_, _)
ValuesOf(hs, n) ==
    IF hs = <<>> THEN <<>>
    ELSE IF HeaderName(Head(hs)[1]) = n
         THEN <<Head(hs)[2]>> \o ValuesOf(Tail(hs), n)
         ELSE ValuesOf(Tail(hs), n)

\* req.headers(): the map the transport built from the header lines
headers_of(hs) ==
    [n \in {HeaderName(hs[i][1]) : i \in DOMAIN hs} |-> ValuesOf(hs, n)]

\* HeaderMap::get: the first value stored under the name
get(h, n) == IF n \in DOMAIN h THEN Some(h[n][1]) ELSE None

\* HeaderMap::iter under one order of the names: one (name, value) pair per
\* stored value
iter(h, ord) ==
    Flatten([k \in DOMAIN ord |->
                [j \in DOMAIN h[ord[k]] |-> <<ord[k], h[ord[k]][j]>>]])

\* the orders in which a map may yield its names
IterOrders(h) == Perms(DOMAIN h)

\* HttpResponseBuilder::insert_header: replaces what the name held
insert_header(h, n, v) ==
    [m \in DOMAIN h \cup {n} |-> IF m = n THEN <<v>> ELSE h[m]]

EmptyMap == [n \in {} |-> <<>>]

(***************************************************************************)
(* echo_handler                                                            *)
(***************************************************************************)
\* the test on a header name without the two control-header comparisons
is_copied_reserved_only(name) ==
    Str(to_lowercase(name)) \notin RESERVED_HEADERS

\* the test of lines 110-112 (and 127-129) on one header name
is_copied(name) ==
    LET header_name == to_lowercase(name)
    IN  /\ Str(header_name) \notin RESERVED_HEADERS
        /\ header_name /= to_lowercase(INTERNAL_STATUS_CODE_HEADER)
        /\ header_name /= to_lowercase(INTERNAL_RESPONSE_BODY_HEADER)

\* lines 86-90
status_code_of(h) ==
    LET v == get(h, INTERNAL_STATUS_CODE_HEADER)
        s == IF v = None THEN None ELSE to_str(v[1])
        n == IF s = None THEN None ELSE parse_u16(s[1])
    IN  unwrap_or(n, 200)

\* the body override applied only when the request has no body
response_body_of_body_first(h, body) ==
    LET v == get(h, INTERNAL_RESPONSE_BODY_HEADER)
        s == IF v = None THEN None ELSE to_str(v[1])
    IN  IF s = None \/ body /= <<>> THEN from_utf8_lossy(body) ELSE s[1]

\* lines 93-97
response_body_of(h, body) ==
    LET v == get(h, INTERNAL_RESPONSE_BODY_HEADER)
        s == IF v = None THEN None ELSE to_str(v[1])
    IN  IF s = None THEN from_utf8_lossy(body) ELSE s[1]

\* the status built from the parsed number without StatusCode::from_u16
build_status_unchecked(status_code) == status_code

\* lines 100-103
build_status(status_code) == unwrap_or(StatusCode_from_u16(status_code), 200)

\* lines 106-118: the loop over the pairs, folding insert_header
RECURSIVE copy_headers(_, _)
copy_headers(pairs, acc) ==
    IF pairs = <<>> THEN acc
    ELSE LET name  == Head(pairs)[1]
             value == Head(pairs)[2]
         IN  IF is_copied(name) /\ to_str(value) /= None
             THEN copy_headers(Tail(pairs), insert_header(acc, name, to_str(value)[1]))
             ELSE copy_headers(Tail(pairs), acc)

\* lines 125-134: the header lines of the outgoing trace
RECURSIVE printed_headers(_)
printed_headers(pairs) ==
    IF pairs = <<>> THEN <<>>
    ELSE LET name  == Head(pairs)[1]
             value == Head(pairs)[2]
         IN  IF is_copied(name) /\ to_str(value) /= None
             THEN <<<<name, to_str(value)[1]>>>> \o printed_headers(Tail(pairs))
             ELSE printed_headers(Tail(pairs))

\* lines 71-75: the header lines of the incoming trace
RECURSIVE incoming_headers(_)
incoming_headers(pairs) ==
    IF pairs = <<>> THEN <<>>
    ELSE IF to_str(Head(pairs)[2]) /= None
         THEN <<<<Head(pairs)[1], to_str(Head(pairs)[2])[1]>>>> \o incoming_headers(Tail(pairs))
         ELSE incoming_headers(Tail(pairs))

\* lines 66-83 and 121-137
trace_of(r, h, ord, is_verbose) ==
    IF is_verbose
    THEN Some(
         [ line       |-> <<r.method, r.path, r.query>>,
           in_headers |-> incoming_headers(iter(h, ord)),
           in_body    |-> IF r.body /= <<>> THEN Some(from_utf8_lossy(r.body)) ELSE None,
           status     |-> status_code_of(h),
           headers    |-> printed_headers(iter(h, ord)),
           body       |-> response_body_of(h, r.body) ])
    ELSE None

\* the HttpResponse of line 139; its header map yields its names in the
\* order out
echo_handler(r, ord, out) ==
    LET h == headers_of(r.headers)
        m == copy_headers(iter(h, ord), EmptyMap)
    IN  [ status  |-> build_status(status_code_of(h)),
          headers |-> iter(m, out),
          body    |-> response_body_of(h, r.body) ]


(***************************************************************************)
(* The requests the model feeds to the handler                             *)
(***************************************************************************)
Workers == 2

NameXA    == <<"X","-","A">>
NameXa    == <<"x","-","a">>
NameXB    == <<"X","-","B">>
NameTE    == <<"T","E">>
NameSC    == <<"I","n","t","e","r","n","a","l",".","S","t","a","t","u","s","-","C","o","d","e">>
NameRB    == <<"I","N","T","E","R","N","A","L",".","R","E","S","P","O","N","S","E","-","B","O","D","Y">>

\* header values: "1", "2", "404", "42", "S" and a value that is not text
Val1   == <<49>>
Val2   == <<50>>
Val404 == <<52, 48, 52>>
Val42  == <<52, 50>>
ValS   == <<83>>
ValBin == <<255>>

HeaderPool ==
    { <<NameXA, Val1>>, <<NameXa, Val2>>, <<NameXA, ValBin>>, <<NameXB, Val1>>,
      <<NameTE, Val1>>,
      <<NameSC, Val404>>, <<INTERNAL_STATUS_CODE_HEADER, Val42>>,
      <<INTERNAL_STATUS_CODE_HEADER, ValBin>>,
      <<INTERNAL_RESPONSE_BODY_HEADER, ValS>>, <<NameRB, ValBin>> }

\* bodies: empty, "hi", and 'h' followed by a byte that is not UTF-8
BodyPool == { <<>>, <<104, 105>>, <<104, 255>> }

Request(m, hs, b) ==
    [method |-> m, path |-> "/foo", query |-> "x=1", headers |-> hs, body |-> b]

Requests ==
    {Request(m, hs, b) : m \in {"GET"}, hs \in SeqsUpTo(HeaderPool, MaxHeaders), b \in BodyPool}

\* requests whose status-control value ranges over short strings of the bytes
\* '0' '1' '9' '+' '-' and one that is not text, and requests that give the
\* header twice
StatusBytes == {48, 49, 57, 43, 45, 255}

StatusRequests ==
    {Request("GET", hs, <<104, 105>>) :
        hs \in {<<>>}
               \cup {<<<<INTERNAL_STATUS_CODE_HEADER, v>>>> :
                        v \in SeqsUpTo(StatusBytes, MaxStatusLen)}
               \cup {<<<<NameSC, v>>, <<INTERNAL_STATUS_CODE_HEADER, u>>>> :
                        v \in {Val404, Val42, ValBin}, u \in {Val404, Val42, ValBin}}}

\* requests whose body ranges over short strings of the bytes 'h', C3 A9
\* (U+00E9), E2 82 AC (U+20AC) and FF
BodyBytes == {104, 195, 169, 226, 130, 172, 255}

BodyRequests ==
    {Request("POST", hs, b) :
        hs \in {<<>>, <<<<INTERNAL_RESPONSE_BODY_HEADER, ValS>>>>, <<<<NameRB, ValBin>>>>,
                <<<<NameRB, ValS>>, <<INTERNAL_RESPONSE_BODY_HEADER, Val1>>>>},
        b \in SeqsUpTo(BodyBytes, MaxBody)}

\* the requests two workers handle side by side
PairRequests ==
    {Request(m, hs, <<104, 105>>) :
        m \in {"GET", "POST"},
        hs \in SeqsUpTo({<<NameXA, Val1>>, <<NameXa, Val2>>, <<NameXB, Val1>>}, MaxHeaders)}

\* longer requests: a repeated name next to values that are not text
LongRequests ==
    {Request("GET", hs, <<104, 105>>) :
        hs \in SeqsUpTo({<<NameXA, Val1>>, <<NameXa, Val2>>, <<NameXB, ValBin>>,
                         <<INTERNAL_STATUS_CODE_HEADER, ValBin>>, <<NameRB, ValBin>>},
                        MaxHeaders + 1)}

(***************************************************************************)
(* Actions of a worker                                                     *)
(***************************************************************************)
\* the transport hands a parsed request to the worker
Receive(w, arriving) ==
    /\ pc[w] = "idle"
    /\ \E r \in arriving : req' = [req EXCEPT ![w] = Some(r)]
    /\ pc' = [pc EXCEPT ![w] = "received"]
    /\ UNCHANGED <<verbose, resp, trace, portVars, mainVars>>

\* echo_handler runs to completion (it never awaits)
Handle(w) ==
    /\ pc[w] = "received"
    /\ LET r == req[w][1]
           h == headers_of(r.headers)
       IN  \E ord \in IterOrders(h) :
             \E out \in IterOrders(copy_headers(iter(h, ord), EmptyMap)) :
               /\ resp' = [resp EXCEPT ![w] = Some(echo_handler(r, ord, out))]
               /\ trace' = [trace EXCEPT ![w] = trace_of(r, h, ord, verbose)]
    /\ pc' = [pc EXCEPT ![w] = "done"]
    /\ UNCHANGED <<verbose, req, portVars, mainVars>>

\* the transport writes the response; the exchange is over
Send(w) ==
    /\ pc[w] = "done"
    /\ pc' = [pc EXCEPT ![w] = "idle"]
    /\ req' = [req EXCEPT ![w] = None]
    /\ resp' = [resp EXCEPT ![w] = None]
    /\ trace' = [trace EXCEPT ![w] = None]
    /\ UNCHANGED <<verbose, portVars, mainVars>>

\* the hosts and ports of the tests, the settings files and the command lines
Host127     == <<49,50,55,46,48,46,48,46,49>>   \* 127.0.0.1
Host0       == <<48,46,48,46,48,46,48>>         \* 0.0.0.0
Host192     == <<49,57,50,46,49,54,56,46,49,46,49>>  \* 192.168.1.1
HostV6      == <<58,58,49>>                     \* ::1
HostName    == <<105,110,118,97,108,105,100,45,104,111,115,116,110,97,109,101>>  \* invalid-hostname
Host999     == <<57,57,57,46,57,57,57,46,57,57,57,46,57,57,57>>  \* 999.999.999.999

Port3001  == <<51,48,48,49>>       \* 3001
Port8080  == <<56,48,56,48>>       \* 8080
Port0     == <<48>>                \* 0
Port65536 == <<54,53,53,51,54>>    \* 65536
PortMinus == <<45,49>>             \* -1

\* Settings.toml: unreadable or unparsable (None), or a host and a u16 port
Files ==
    {None} \cup {Some([host |-> h, port |-> p]) : h \in {Host0, HostName}, p \in {0, 8080}}

\* the command line: each flag given or not
Clis ==
    [ hostname : {None} \cup {Some(h) : h \in {Host127, Host192, HostV6, HostName, Host999}},
      port     : {None} \cup {Some(p) : p \in {Port8080, Port0, Port65536, PortMinus}},
      verbose  : BOOLEAN ]

\* lines 164-170
Settings_load(f) ==
    IF f = None THEN [host |-> Host127, port |-> 3001] ELSE f[1]

\* get_one on arguments declared without a default: None when the flag is absent
get_one_no_default(c, id) ==
    IF id = "hostname" THEN c.hostname ELSE c.port

\* ArgMatches::get_one on an argument declared with default_value: the value
\* given on the command line, else the declared default
get_one(c, id) ==
    IF id = "hostname" THEN (IF c.hostname /= None THEN c.hostname ELSE Some(Host127))
    ELSE (IF c.port /= None THEN c.port ELSE Some(Port3001))

\* main after a start without Settings.toml and without --hostname or --port:
\* the server runs on the defaults
MainServing ==
    /\ mpc = "serving"
    /\ file = None
    /\ cli = [hostname |-> None, port |-> None, verbose |-> verbose]
    /\ settings = Some(Settings_load(None))
    /\ hostname = Some(validate_hostname(Host127)[2])
    /\ port = Some(validate_port(Port3001)[2])
    /\ checked = [host |-> Some(Host127), port |-> Some(Port3001)]
    /\ bound = Some(<<validate_hostname(Host127)[2], validate_port(Port3001)[2]>>)
    /\ exit_code = None
    /\ served = 0

PortInit == port_in = None /\ port_out = None

EchoInit ==
    /\ verbose \in BOOLEAN
    /\ pc = [w \in 1..Workers |-> "idle"]
    /\ req = [w \in 1..Workers |-> None]
    /\ resp = [w \in 1..Workers |-> None]
    /\ trace = [w \in 1..Workers |-> None]

\* one worker, requests mixing control, reserved and pass-through headers
Init == EchoInit /\ PortInit /\ MainServing

Next ==
    \/ Receive(1, Requests)
    \/ Handle(1)
    \/ Send(1)

Spec == Init /\ [][Next]_vars

\* one worker, requests whose status-control value is any short string
NextStatus ==
    \/ Receive(1, StatusRequests)
    \/ Handle(1)
    \/ Send(1)

SpecStatus == Init /\ [][NextStatus]_vars

\* one worker, requests whose body is any short byte string
NextBody ==
    \/ Receive(1, BodyRequests)
    \/ Handle(1)
    \/ Send(1)

SpecBody == Init /\ [][NextBody]_vars

\* one worker, longer requests that repeat a name next to a value that is not text
NextLong ==
    \/ Receive(1, LongRequests)
    \/ Handle(1)
    \/ Send(1)

SpecLong == Init /\ [][NextLong]_vars

\* the workers handle requests side by side
NextPair ==
    \E w \in 1..Workers :
        \/ Receive(w, PairRequests)
        \/ Handle(w)
        \/ Send(w)

SpecPair == Init /\ [][NextPair]_vars

(***************************************************************************)
(* validate_port on its own                                                *)
(***************************************************************************)
PortBytes == {48, 51, 53, 54, 43, 45, 120}

\* one call of validate_port
Validate ==
    /\ port_in = None
    /\ \E s \in SeqsUpTo(PortBytes, MaxPortLen) :
         /\ port_in' = Some(s)
         /\ port_out' = Some(validate_port(s))
    /\ UNCHANGED <<echoVars, mainVars>>

InitPort == EchoInit /\ PortInit /\ MainServing

NextPort == Validate

SpecPort == InitPort /\ [][NextPort]_vars

(***************************************************************************)
(* main                                                                    *)
(***************************************************************************)
LoadSettings ==
    /\ mpc = "start"
    /\ settings' = Some(Settings_load(file))
    /\ mpc' = "host"
    /\ UNCHANGED <<echoVars, portVars, file, cli, hostname, port, checked, bound,
                   exit_code, served>>

\* lines 202-211
CheckHost ==
    /\ mpc = "host"
    /\ LET hostname_str == unwrap_or(get_one(cli, "hostname"), settings[1].host)
           r == validate_hostname(hostname_str)
       IN  IF is_ok(r)
           THEN /\ hostname' = Some(r[2])
                /\ checked' = [checked EXCEPT !.host = Some(hostname_str)]
                /\ mpc' = "port"
                /\ UNCHANGED exit_code
           ELSE /\ exit_code' = Some(1)
                /\ mpc' = "exited"
                /\ UNCHANGED <<hostname, checked>>
    /\ UNCHANGED <<echoVars, portVars, file, cli, settings, port, bound, served>>

\* lines 214-224
CheckPort ==
    /\ mpc = "port"
    /\ LET m == get_one(cli, "port")
       IN  IF m /= None
           THEN LET r == validate_port(m[1])
                IN  IF is_ok(r)
                    THEN /\ port' = Some(r[2])
                         /\ checked' = [checked EXCEPT !.port = Some(m[1])]
                         /\ mpc' = "bind"
                         /\ UNCHANGED exit_code
                    ELSE /\ exit_code' = Some(1)
                         /\ mpc' = "exited"
                         /\ UNCHANGED <<port, checked>>
           ELSE /\ port' = Some(settings[1].port)
                /\ mpc' = "bind"
                /\ UNCHANGED <<exit_code, checked>>
    /\ UNCHANGED <<echoVars, portVars, file, cli, settings, hostname, bound, served>>

\* lines 227-248: the socket is bound and the server starts
Bind ==
    /\ mpc = "bind"
    /\ bound' = Some(<<hostname[1], port[1]>>)
    /\ verbose' = cli.verbose
    /\ mpc' = "serving"
    /\ UNCHANGED <<pc, req, resp, trace, portVars, file, cli, settings, hostname,
                   port, checked, exit_code, served>>

\* line 248: bind fails, main returns the error
BindFails ==
    /\ mpc = "bind"
    /\ exit_code' = Some(1)
    /\ mpc' = "exited"
    /\ UNCHANGED <<echoVars, portVars, file, cli, settings, hostname, port,
                   checked, bound, served>>

\* lines 249-251: the running server answers a request
Serve ==
    /\ mpc = "serving"
    /\ served < MaxServed
    /\ served' = served + 1
    /\ UNCHANGED <<echoVars, portVars, mpc, file, cli, settings, hostname, port,
                   checked, bound, exit_code>>

\* lines 250-251: the server stops, main returns Ok
Shutdown ==
    /\ mpc = "serving"
    /\ exit_code' = Some(0)
    /\ mpc' = "exited"
    /\ UNCHANGED <<echoVars, portVars, file, cli, settings, hostname, port,
                   checked, bound, served>>

InitMain ==
    /\ EchoInit /\ verbose = FALSE
    /\ PortInit
    /\ mpc = "start"
    /\ file \in Files
    /\ cli \in Clis
    /\ settings = None
    /\ hostname = None
    /\ port = None
    /\ checked = [host |-> None, port |-> None]
    /\ bound = None
    /\ exit_code = None
    /\ served = 0

NextMain ==
    \/ LoadSettings
    \/ CheckHost
    \/ CheckPort
    \/ Bind
    \/ BindFails
    \/ Serve
    \/ Shutdown

SpecMain == InitMain /\ [][NextMain]_vars

(***************************************************************************)
(* Properties                                                              *)
(***************************************************************************)
Done(w) == pc[w] = "done"
Rq(w) == req[w][1]
Rs(w) == resp[w][1]

IsText(v) == \A i \in DOMAIN v : v[i] = 9 \/ (v[i] >= 32 /\ v[i] <= 126)
IsDigits(v) == v /= <<>> /\ \A i \in DOMAIN v : v[i] >= 48 /\ v[i] <= 57

\* the number a string of decimal digits denotes, of any size
RECURSIVE DecimalValue(_)
DecimalValue(v) ==
    IF v = <<>> THEN 0
    ELSE DecimalValue(SubSeq(v, 1, Len(v) - 1)) * 10 + (v[Len(v)] - 48)

HasSign(v) == v /= <<>> /\ (v[1] = 43 \/ v[1] = 45)
Unsigned(v) == IF HasSign(v) THEN Tail(v) ELSE v
IsIntegerText(v) == IsText(v) /\ IsDigits(Unsigned(v))
IntegerOf(v) ==
    IF v[1] = 45 THEN 0 - DecimalValue(Unsigned(v)) ELSE DecimalValue(Unsigned(v))

\* the values a request carries under a name, in the order of the header lines
RECURSIVE WireValues(_, _)
WireValues(hs, n) ==
    IF hs = <<>> THEN <<>>
    ELSE IF to_lowercase(Head(hs)[1]) = n
         THEN <<Head(hs)[2]>> \o WireValues(Tail(hs), n)
         ELSE WireValues(Tail(hs), n)

IsControlName(n) ==
    to_lowercase(n) \in {INTERNAL_STATUS_CODE_HEADER, INTERNAL_RESPONSE_BODY_HEADER}
IsReservedName(n) == Str(to_lowercase(n)) \in RESERVED_HEADERS
IsPassThrough(n) == ~IsControlName(n) /\ ~IsReservedName(n)

\* the pass-through header lines of a request that carry text, names lowercased
RECURSIVE PassThroughOf(_)
PassThroughOf(hs) ==
    IF hs = <<>> THEN <<>>
    ELSE IF IsPassThrough(Head(hs)[1]) /\ IsText(Head(hs)[2])
         THEN <<<<to_lowercase(Head(hs)[1]), Head(hs)[2]>>>> \o PassThroughOf(Tail(hs))
         ELSE PassThroughOf(Tail(hs))

Count(seq, x) == Cardinality({i \in DOMAIN seq : seq[i] = x})
SameOccurrences(a, b) ==
    \A x \in {a[i] : i \in DOMAIN a} \cup {b[i] : i \in DOMAIN b} : Count(a, x) = Count(b, x)
HasNonText(hs) == \E i \in DOMAIN hs : ~IsText(hs[i][2])

\* C1: the response status is the integer of the first internal.status-code
\* value when that header is present, its value is an integer and the integer
\* lies in 100..999; it is 200 in every other case
ExpectedStatus(r) ==
    LET vs == WireValues(r.headers, INTERNAL_STATUS_CODE_HEADER)
    IN  IF vs /= <<>> /\ IsIntegerText(vs[1])
           /\ IntegerOf(vs[1]) >= 100 /\ IntegerOf(vs[1]) <= 999
        THEN IntegerOf(vs[1]) ELSE 200

C1_StatusFromHeader ==
    \A w \in 1..Workers : Done(w) => Rs(w).status = ExpectedStatus(Rq(w))

C1_Witness ==
    \E w \in 1..Workers :
        /\ Done(w)
        /\ WireValues(Rq(w).headers, INTERNAL_STATUS_CODE_HEADER) = <<<<43, 57, 57, 57>>>>
        /\ Rs(w).status = 999

\* UTF-8 encoding of a sequence of code points
RECURSIVE Utf8(_)
Utf8(cs) ==
    IF cs = <<>> THEN <<>>
    ELSE LET c == Head(cs)
         IN  (IF c < 128 THEN <<c>>
              ELSE IF c < 2048 THEN <<192 + (c \div 64), 128 + (c % 64)>>
              ELSE IF c < 65536
                   THEN <<224 + (c \div 4096), 128 + ((c \div 64) % 64), 128 + (c % 64)>>
              ELSE <<240 + (c \div 262144), 128 + ((c \div 4096) % 64),
                     128 + ((c \div 64) % 64), 128 + (c % 64)>>)
             \o Utf8(Tail(cs))

IsScalar(c) == (c >= 0 /\ c < 55296) \/ (c > 57343 /\ c <= 1114111)

\* a lenient decoding of bytes: text of scalar values that encodes back to the
\* bytes unless something had to be replaced, and has no more characters than
\* there are bytes
IsLenientDecoding(text, bytes) ==
    /\ \A i \in DOMAIN text : IsScalar(text[i])
    /\ Len(text) <= Len(bytes)
    /\ (\A i \in DOMAIN text : text[i] /= REPLACEMENT) => Utf8(text) = bytes
    /\ (\A i \in DOMAIN bytes : bytes[i] < 128) => text = bytes

\* C2: with internal.response-body present as text S the response body is S
\* whatever the request body; without the header the response body is the
\* request body decoded leniently as UTF-8
C2_BodyOverrideOrEcho ==
    \A w \in 1..Workers :
        Done(w) =>
            LET vs == WireValues(Rq(w).headers, INTERNAL_RESPONSE_BODY_HEADER)
            IN  /\ (vs /= <<>> /\ IsText(vs[1])) => Rs(w).body = vs[1]
                /\ vs = <<>> => /\ Rs(w).body = from_utf8_lossy(Rq(w).body)
                                /\ IsLenientDecoding(Rs(w).body, Rq(w).body)

C2_Witness ==
    \E w \in 1..Workers :
        /\ Done(w)
        /\ Rq(w).headers = <<<<INTERNAL_RESPONSE_BODY_HEADER, ValS>>>>
        /\ Rq(w).body = <<104, 255>>
        /\ Rs(w).body = ValS

\* C3: no response header has a lowercase name that is reserved or is one of
\* the two control names, in whatever case the request spelled it
C3_NoReservedOrControl ==
    \A w \in 1..Workers :
        Done(w) => \A i \in DOMAIN Rs(w).headers : IsPassThrough(Rs(w).headers[i][1])

C3_Witness ==
    \E w \in 1..Workers :
        /\ Done(w)
        /\ Rq(w).headers = <<<<NameTE, Val1>>, <<NameSC, Val404>>>>
        /\ Rs(w).headers = <<>>
        /\ Rs(w).status = 404

\* C4: the response headers are the pass-through header lines of the request,
\* with the same names and values, in the same order, every occurrence kept
C4_Original ==
    \A w \in 1..Workers :
        Done(w) => Rs(w).headers = PassThroughOf(Rq(w).headers)

\* what holds instead: one header per pass-through name, carrying the last
\* text value the request gave under that name
C4_LastValuePerName ==
    \A w \in 1..Workers :
        Done(w) =>
            LET pt == PassThroughOf(Rq(w).headers)
            IN  /\ \A i \in DOMAIN Rs(w).headers :
                      /\ Count(Rs(w).headers, Rs(w).headers[i]) = 1
                      /\ \E k \in DOMAIN pt :
                            /\ pt[k] = Rs(w).headers[i]
                            /\ \A j \in DOMAIN pt : j > k => pt[j][1] /= pt[k][1]
                /\ \A k \in DOMAIN pt :
                      \E i \in DOMAIN Rs(w).headers : Rs(w).headers[i][1] = pt[k][1]

\* C5: validate_port returns Ok(p) exactly when its input is a string of
\* decimal digits denoting p with 1 <= p <= 65535
C5_Original ==
    port_out /= None =>
        LET in == port_in[1]
            good == IsDigits(in) /\ DecimalValue(in) >= 1 /\ DecimalValue(in) <= 65535
        IN  /\ is_ok(port_out[1]) <=> good
            /\ good => port_out[1] = Ok(DecimalValue(in))

\* C5 as amended: validate_port returns Ok(p) exactly when its input is one or
\* more decimal digits, optionally preceded by a single '+', denoting p with
\* 1 <= p <= 65535; every other input is an error
C5_PlusSignAccepted ==
    port_out /= None =>
        LET in == port_in[1]
            digits == IF in /= <<>> /\ in[1] = 43 THEN Tail(in) ELSE in
            good == IsDigits(digits) /\ DecimalValue(digits) >= 1
                    /\ DecimalValue(digits) <= 65535
        IN  /\ is_ok(port_out[1]) <=> good
            /\ good => port_out[1] = Ok(DecimalValue(digits))

C5_Witness ==
    /\ port_in = Some(<<54, 53, 53, 51, 53>>)
    /\ port_out = Some(Ok(65535))

\* C6: the socket is bound only after validate_hostname and validate_port
\* returned Ok on the host and port it is bound to; a process that exits with
\* status 1 has bound nothing and served nothing, and does nothing more
C6_BindAfterValidation ==
    /\ bound /= None =>
          /\ checked.host /= None /\ checked.port /= None
          /\ IpAddr_from_str(checked.host[1]) = Some(bound[1][1])
          /\ IsDigits(Unsigned(checked.port[1]))
          /\ DecimalValue(Unsigned(checked.port[1])) = bound[1][2]
          /\ bound[1][2] >= 1 /\ bound[1][2] <= 65535
    /\ served > 0 => bound /= None
    /\ exit_code = Some(1) => (bound = None /\ served = 0 /\ ~ENABLED NextMain)

C6_Witness ==
    /\ bound /= None
    /\ served > 0
    /\ checked.host = Some(HostV6)
    /\ checked.port = Some(Port8080)

\* C7: the handler always returns a response; a value that is not text only
\* sends its own header to the default, and every other pass-through header
\* line of the request is in the response
C7_Original ==
    \A w \in 1..Workers :
        Done(w) =>
            LET hs == Rq(w).headers
                sc == WireValues(hs, INTERNAL_STATUS_CODE_HEADER)
                rb == WireValues(hs, INTERNAL_RESPONSE_BODY_HEADER)
            IN  /\ resp[w] /= None
                /\ (sc /= <<>> /\ ~IsText(sc[1])) => Rs(w).status = 200
                /\ (rb /= <<>> /\ ~IsText(rb[1])) => Rs(w).body = from_utf8_lossy(Rq(w).body)
                /\ HasNonText(hs) =>
                      \A k \in DOMAIN PassThroughOf(hs) :
                          Count(Rs(w).headers, PassThroughOf(hs)[k]) >= 1

\* what holds instead: the defaults apply, and every pass-through name that
\* carries text in the request is in the response
C7_EveryNameKept ==
    \A w \in 1..Workers :
        Done(w) =>
            LET hs == Rq(w).headers
                sc == WireValues(hs, INTERNAL_STATUS_CODE_HEADER)
                rb == WireValues(hs, INTERNAL_RESPONSE_BODY_HEADER)
            IN  /\ resp[w] /= None
                /\ (sc /= <<>> /\ ~IsText(sc[1])) => Rs(w).status = 200
                /\ (rb /= <<>> /\ ~IsText(rb[1])) => Rs(w).body = from_utf8_lossy(Rq(w).body)
                /\ \A k \in DOMAIN PassThroughOf(hs) :
                      \E i \in DOMAIN Rs(w).headers :
                          Rs(w).headers[i][1] = PassThroughOf(hs)[k][1]

\* C8: two workers that handled identical requests hold identical responses:
\* same status, same header sequence, same body
C8_Original ==
    \A v, w \in 1..Workers :
        (Done(v) /\ Done(w) /\ req[v] = req[w]) => resp[v] = resp[w]

\* what holds instead: identical requests give the same status, the same body
\* and the same header occurrences
C8_SameUpToOrder ==
    \A v, w \in 1..Workers :
        (Done(v) /\ Done(w) /\ req[v] = req[w]) =>
            /\ Rs(v).status = Rs(w).status
            /\ Rs(v).body = Rs(w).body
            /\ SameOccurrences(Rs(v).headers, Rs(w).headers)

\* C9: in verbose mode the outgoing trace shows the status of the response
\* returned and exactly the header occurrences the response carries
C9_Original ==
    \A w \in 1..Workers :
        (Done(w) /\ verbose) =>
            /\ trace[w][1].status = Rs(w).status
            /\ SameOccurrences(trace[w][1].headers, Rs(w).headers)

\* C10: the bind host and port are the command-line values when given, else
\* those of Settings.toml, else 127.0.0.1 and 3001 when the file did not load
ExpectedHost ==
    IF cli.hostname /= None THEN cli.hostname[1]
    ELSE IF file /= None THEN file[1].host ELSE Host127

ExpectedPort ==
    IF cli.port /= None THEN DecimalValue(Unsigned(cli.port[1]))
    ELSE IF file /= None THEN file[1].port ELSE 3001

C10_Original ==
    bound /= None =>
        /\ Some(bound[1][1]) = IpAddr_from_str(ExpectedHost)
        /\ bound[1][2] = ExpectedPort
====
